---- MODULE Spec2Model ----
(***************************************************************************)
(* State-machine model of src/src/App.tsx (Carris Metropolitana route      *)
(* lookup): the React state of App, the asynchronous handlers searchRoute, *)
(* fetchPattern and downloadGPX, and the pure converter geojsonToGpx.      *)
(* Every `await` of the source is a suspension point: the code between two *)
(* awaits is one atomic action, and the settling of a fetch is an action   *)
(* of its own whose outcome (ok / non-ok status / rejection) is chosen     *)
(* nondeterministically.                                                   *)
(***************************************************************************)
EXTENDS Integers, Sequences, FiniteSets, TLC

VARIABLES
  routeNumber,      \* useState('')      text of the search box, a sequence of characters
  routeDetails,     \* useState(null)    line record or Null
  patterns,         \* useState([])      enriched pattern records
  selectedPattern,  \* useState(null)    pattern record or Null
  shapeData,        \* useState(null)    shape record or Null
  loading,          \* useState(false)
  error,            \* useState('')
  batches,          \* the searchRoute invocations with requests in flight, and the latest one
  shapeFetches,     \* in-flight fetchPattern invocations, counted per captured pattern id
  gpxFile,          \* the document the step just taken handed to the browser, or Null
  gpxIn,            \* argument of the last geojsonToGpx / GPX template evaluation
  gpxOut            \* its result (a document or a thrown error)

vars == <<routeNumber, routeDetails, patterns, selectedPattern, shapeData,
          loading, error, batches, shapeFetches, gpxFile, gpxIn, gpxOut>>

appVars == <<routeNumber, routeDetails, patterns, selectedPattern, shapeData,
             loading, error, batches, shapeFetches, gpxFile>>

-----------------------------------------------------------------------------
(* Bounds of the model *)

MaxPatterns == 2      \* longest pattern-identifier list a line record carries
MaxBatches == 1       \* searchRoute invocations with requests still in flight
MaxShapeFetches == 2  \* shape fetches simultaneously in flight
MaxCoords == 2        \* longest coordinate sequence of a line geometry

-----------------------------------------------------------------------------
(* Values *)

Null == [null |-> TRUE]

PatternIds == {"p1", "p2"}

\* What GET /patterns/{id} answers with a success status: p1 and p2 are the
\* two directions of one route.
PatternDb ==
  [p \in PatternIds |->
     [id |-> p,
      headsign   |-> IF p = "p1" THEN <<"A", " ", "-", " ", "B">>
                     ELSE <<"B", " ", "-", " ", "A">>,
      long_name  |-> "pattern",
      shape_id   |-> IF p = "p1" THEN "s1" ELSE "s2",
      route_id   |-> "r1"]]

\* What GET /routes/{id} answers with a success status.
RouteDb ==
  [r \in {PatternDb[p].route_id : p \in PatternIds} |-> [long_name |-> "Route one"]]

\* Outcomes of `await fetch(..)` followed by `.ok` and `await response.json()`:
\* a success status, a non-success status, or a rejection of the promise.
Outcomes == {"ok", "notok", "reject"}

RECURSIVE SeqsUpTo(_, _)
SeqsUpTo(S, n) ==
  IF n = 0 THEN {<<>>}
  ELSE LET shorter == SeqsUpTo(S, n - 1)
       IN  shorter \cup {Append(s, x) : s \in {t \in shorter : Len(t) = n - 1}, x \in S}

\* Line records GET /lines/{id} may answer with: every list of at most
\* MaxPatterns pattern identifiers in which no identifier follows itself.
LineRecords ==
  {[short_name |-> "1001", long_name |-> "Line", patterns |-> ps] :
     ps \in {q \in SeqsUpTo(PatternIds, MaxPatterns) :
               \A i \in 1..(Len(q) - 1) : q[i] # q[i + 1]}}

-----------------------------------------------------------------------------
(* Messages passed to setError *)

MsgEmptyRoute    == "Por favor, insira o numero da rota."
MsgRouteNotFound == "Rota nao encontrada"
MsgPattern(p)    == "Erro ao carregar o padrao " \o p
MsgRoute(r)      == "Erro ao carregar a rota " \o r
MsgShape         == "Erro ao carregar o shape"
MsgNoSelection   == "Nenhum padrao selecionado ou dados de forma indisponiveis."
MsgGpx           == "Erro ao gerar arquivo GPX"
\* err.message of the error a rejected fetch()/json() promise carries
MsgNetwork       == "Failed to fetch"

-----------------------------------------------------------------------------
(* String.prototype.trim on a sequence of characters *)

IsSpace(c) == c \in {" ", "\t", "\n"}

RECURSIVE TrimStart(_)
TrimStart(s) ==
  IF s = <<>> THEN s
  ELSE IF IsSpace(Head(s)) THEN TrimStart(Tail(s)) ELSE s

RECURSIVE TrimEnd(_)
TrimEnd(s) ==
  IF s = <<>> THEN s
  ELSE IF IsSpace(s[Len(s)]) THEN TrimEnd(SubSeq(s, 1, Len(s) - 1)) ELSE s

trimNoop(s) == s

trim(s) == TrimEnd(TrimStart(s))

\* Texts the user types into the search box.
RouteNumbers == {<<" ">>, <<"1">>}

-----------------------------------------------------------------------------
(* searchRoute: the fan-out of src/src/App.tsx:143-160 *)

\* The async arrow function of data.patterns.map, up to its first await:
\* the pattern request is issued and the task waits for it.
NewTask(patternId) ==
  [stage |-> "pattern", id |-> patternId, route_id |-> "", value |-> Null, reason |-> ""]

\* { ...patternData, route_long_name: routeData.long_name, long_name: routeData.long_name }
Enrich(patternData, routeData) ==
  [f \in DOMAIN patternData \cup {"route_long_name", "long_name"} |->
     IF f \in {"route_long_name", "long_name"} THEN routeData.long_name
     ELSE patternData[f]]

Settled(task) == task.stage \in {"resolved", "rejected", "forgotten"}

\* Promise.all over the tasks of one batch; arrival lists the indices of the
\* resolved tasks in the order in which they resolved.
PromiseAllArrivalOrder(tasks, arrival) ==
  IF \E i \in 1..Len(tasks) : tasks[i].stage = "rejected"
  THEN [state  |-> "rejected", value |-> <<>>,
        reason |-> tasks[CHOOSE i \in 1..Len(tasks) : tasks[i].stage = "rejected"].reason]
  ELSE IF \A i \in 1..Len(tasks) : tasks[i].stage = "resolved"
  THEN [state |-> "fulfilled", reason |-> "",
        value |-> [i \in 1..Len(arrival) |-> tasks[arrival[i]].value]]
  ELSE [state |-> "pending", value |-> <<>>, reason |-> ""]

PromiseAllSettled(tasks, arrival) ==
  IF \A i \in 1..Len(tasks) : Settled(tasks[i])
  THEN [state |-> "fulfilled", reason |-> "",
        value |-> LET ok == SelectSeq([i \in 1..Len(tasks) |-> i],
                                      LAMBDA i : tasks[i].stage = "resolved")
                  IN  [k \in 1..Len(ok) |-> tasks[ok[k]].value]]
  ELSE [state |-> "pending", value |-> <<>>, reason |-> ""]

PromiseAllEager(tasks, arrival) ==
  IF \E i \in 1..Len(tasks) : tasks[i].stage = "rejected"
  THEN [state  |-> "rejected", value |-> <<>>,
        reason |-> tasks[CHOOSE i \in 1..Len(tasks) : tasks[i].stage = "rejected"].reason]
  ELSE IF \A i \in 1..Len(tasks) : tasks[i].stage \in {"route", "resolved"}
  THEN [state |-> "fulfilled", reason |-> "",
        value |-> [i \in 1..Len(tasks) |->
                     Enrich(PatternDb[tasks[i].id], RouteDb[tasks[i].route_id])]]
  ELSE [state |-> "pending", value |-> <<>>, reason |-> ""]

PromiseAll(tasks, arrival) ==
  IF \E i \in 1..Len(tasks) : tasks[i].stage = "rejected"
  THEN [state  |-> "rejected", value |-> <<>>,
        reason |-> tasks[CHOOSE i \in 1..Len(tasks) : tasks[i].stage = "rejected"].reason]
  ELSE IF \A i \in 1..Len(tasks) : tasks[i].stage = "resolved"
  THEN [state |-> "fulfilled", reason |-> "",
        value |-> [i \in 1..Len(tasks) |-> tasks[i].value]]
  ELSE [state |-> "pending", value |-> <<>>, reason |-> ""]

\* The closures of a searchRoute invocation live as long as one of its
\* requests is in flight; afterwards only the outcome of the latest
\* invocation, batches[1], is remembered (status, line record, whether its
\* tasks resolved out of order).
Free == [status |-> "free", data |-> Null, tasks |-> <<>>, arrival |-> <<>>,
         reordered |-> FALSE]

\* the tasks did not resolve in the order of their indices
Reordered(arrival) == \E i \in 1..(Len(arrival) - 1) : arrival[i] > arrival[i + 1]

Forgotten == [stage |-> "forgotten", id |-> "", route_id |-> "", value |-> Null, reason |-> ""]

Release(bs) ==
  [g \in DOMAIN bs |->
     IF bs[g].status \in {"line", "fanout"}
     THEN bs[g]
     ELSE IF \E i \in DOMAIN bs[g].tasks : ~Settled(bs[g].tasks[i])
     THEN IF g = 1
          THEN [bs[g] EXCEPT !.arrival = <<>>,
                             !.tasks = [i \in DOMAIN bs[g].tasks |->
                                          IF Settled(bs[g].tasks[i]) THEN Forgotten
                                          ELSE bs[g].tasks[i]]]
          ELSE [bs[g] EXCEPT !.arrival = <<>>, !.data = Null,
                             !.tasks = SelectSeq(bs[g].tasks, LAMBDA t : ~Settled(t))]
     ELSE IF g = 1
     THEN [bs[g] EXCEPT !.tasks = <<>>, !.arrival = <<>>,
                        !.reordered = @ \/ Reordered(bs[g].arrival)]
     ELSE Free]

HasOrphans(b) == \E i \in DOMAIN b.tasks : ~Settled(b.tasks[i])

\* A new invocation starts: it becomes batches[1]; the previous one, if
\* tasks of it are still running, is kept in the first free place after it.
Superseded(bs) ==
  IF HasOrphans(bs[1])
  THEN LET g == CHOOSE h \in DOMAIN bs :
                  h > 1 /\ bs[h] = Free /\ \A k \in 2..(h - 1) : bs[k] # Free
       IN  Release([bs EXCEPT ![g] = bs[1], ![1] = Free])
  ELSE [bs EXCEPT ![1] = Free]

JoinNoFinally(g, tasks, arrival) ==
  LET b == batches[g]
      r == PromiseAll(tasks, arrival)
  IN  IF b.status = "fanout" /\ r.state = "fulfilled"
      THEN /\ patterns' = r.value
           /\ loading' = FALSE
           /\ UNCHANGED <<error, routeDetails>>
           /\ batches' = Release([batches EXCEPT ![g].tasks = tasks, ![g].arrival = arrival,
                                         ![g].status = "fulfilled"])
      ELSE IF b.status = "fanout" /\ r.state = "rejected"
      THEN /\ error' = r.reason
           /\ UNCHANGED <<patterns, routeDetails, loading>>
           /\ batches' = Release([batches EXCEPT ![g].tasks = tasks, ![g].arrival = arrival,
                                         ![g].status = "rejected"])
      ELSE /\ UNCHANGED <<patterns, loading, error, routeDetails>>
           /\ batches' = Release([batches EXCEPT ![g].tasks = tasks, ![g].arrival = arrival])

JoinDropsLine(g, tasks, arrival) ==
  LET b == batches[g]
      r == PromiseAll(tasks, arrival)
  IN  IF b.status = "fanout" /\ r.state = "fulfilled"
      THEN /\ patterns' = r.value
           /\ loading' = FALSE
           /\ UNCHANGED <<error, routeDetails>>
           /\ batches' = Release([batches EXCEPT ![g].tasks = tasks, ![g].arrival = arrival,
                                         ![g].status = "fulfilled"])
      ELSE IF b.status = "fanout" /\ r.state = "rejected"
      THEN /\ loading' = FALSE
           /\ error' = r.reason
           /\ routeDetails' = Null
           /\ UNCHANGED patterns
           /\ batches' = Release([batches EXCEPT ![g].tasks = tasks, ![g].arrival = arrival,
                                         ![g].status = "rejected"])
      ELSE /\ UNCHANGED <<patterns, loading, error, routeDetails>>
           /\ batches' = Release([batches EXCEPT ![g].tasks = tasks, ![g].arrival = arrival])

\* The code after `await Promise.all(..)`: setPatterns on fulfilment, the
\* catch block on rejection, the finally block in both cases.  A batch whose
\* Promise.all has already settled ignores the tasks that settle later.
Join(g, tasks, arrival) ==
  LET b == batches[g]
      r == PromiseAll(tasks, arrival)
  IN  IF b.status = "fanout" /\ r.state = "fulfilled"
      THEN /\ patterns' = r.value
           /\ loading' = FALSE
           /\ UNCHANGED <<error, routeDetails>>
           /\ batches' = Release([batches EXCEPT ![g].tasks = tasks, ![g].arrival = arrival,
                                         ![g].status = "fulfilled"])
      ELSE IF b.status = "fanout" /\ r.state = "rejected"
      THEN /\ loading' = FALSE
           /\ error' = r.reason
           /\ UNCHANGED <<patterns, routeDetails>>
           /\ batches' = Release([batches EXCEPT ![g].tasks = tasks, ![g].arrival = arrival,
                                         ![g].status = "rejected"])
      ELSE /\ UNCHANGED <<patterns, loading, error, routeDetails>>
           /\ batches' = Release([batches EXCEPT ![g].tasks = tasks, ![g].arrival = arrival])

-----------------------------------------------------------------------------
(* Actions of the application *)

\* onChange of the search box
SetRouteNumber(s) ==
  /\ routeNumber # s
  /\ routeNumber' = s
  /\ UNCHANGED <<routeDetails, patterns, selectedPattern, shapeData, loading, error,
                 batches, shapeFetches, gpxIn, gpxOut>>
  /\ gpxFile' = Null

\* searchRoute with an input that is empty after trimming (lines 122-125)
SearchRouteEmpty ==
  /\ ~loading
  /\ trim(routeNumber) = <<>>
  /\ error' = MsgEmptyRoute
  /\ UNCHANGED <<routeNumber, routeDetails, patterns, selectedPattern, shapeData, loading,
                 batches, shapeFetches, gpxIn, gpxOut>>
  /\ gpxFile' = Null

SearchRouteKeepsPatterns ==
  /\ ~loading
  /\ trim(routeNumber) # <<>>
  /\ HasOrphans(batches[1]) => \E g \in DOMAIN batches : g > 1 /\ batches[g] = Free
  /\ loading' = TRUE
  /\ error' = ""
  /\ routeDetails' = Null
  /\ selectedPattern' = Null
  /\ shapeData' = Null
  /\ patterns' = patterns
  /\ batches' = [Superseded(batches) EXCEPT ![1] = [Free EXCEPT !.status = "line"]]
  /\ UNCHANGED <<routeNumber, shapeFetches, gpxIn, gpxOut>>
  /\ gpxFile' = Null

SearchRouteKeepsSelection ==
  /\ ~loading
  /\ trim(routeNumber) # <<>>
  /\ HasOrphans(batches[1]) => \E g \in DOMAIN batches : g > 1 /\ batches[g] = Free
  /\ loading' = TRUE
  /\ error' = ""
  /\ routeDetails' = Null
  /\ selectedPattern' = selectedPattern
  /\ shapeData' = Null
  /\ patterns' = <<>>
  /\ batches' = [Superseded(batches) EXCEPT ![1] = [Free EXCEPT !.status = "line"]]
  /\ UNCHANGED <<routeNumber, shapeFetches, gpxIn, gpxOut>>
  /\ gpxFile' = Null

\* searchRoute up to `await fetch(lines/..)` (lines 127-135)
SearchRouteStart ==
  /\ ~loading
  /\ trim(routeNumber) # <<>>
  /\ HasOrphans(batches[1]) => \E g \in DOMAIN batches : g > 1 /\ batches[g] = Free
  /\ loading' = TRUE
  /\ error' = ""
  /\ routeDetails' = Null
  /\ selectedPattern' = Null
  /\ shapeData' = Null
  /\ patterns' = <<>>
  /\ batches' = [Superseded(batches) EXCEPT ![1] = [Free EXCEPT !.status = "line"]]
  /\ UNCHANGED <<routeNumber, shapeFetches, gpxIn, gpxOut>>
  /\ gpxFile' = Null

\* onClick of the search button, disabled={loading} (lines 256-262)
SearchRoute == SearchRouteEmpty \/ SearchRouteStart

\* The line fetch settles with a non-success status or rejects (lines 136-138, 162-166)
LineFailed(g, outcome) ==
  /\ batches[g].status = "line"
  /\ outcome \in {"notok", "reject"}
  /\ error' = IF outcome = "notok" THEN MsgRouteNotFound ELSE MsgNetwork
  /\ loading' = FALSE
  /\ batches' = Release([batches EXCEPT ![g].status = IF outcome = "notok" THEN "notfound" ELSE "neterror"])
  /\ UNCHANGED <<routeNumber, routeDetails, patterns, selectedPattern, shapeData,
                 shapeFetches, gpxIn, gpxOut>>
  /\ gpxFile' = Null

LineLoadedOneByOne(g, data) ==
  /\ batches[g].status = "line"
  /\ routeDetails' = data
  /\ LET tasks == [i \in 1..(IF data.patterns = <<>> THEN 0 ELSE 1) |-> NewTask(data.patterns[i])]
         r == PromiseAll(tasks, <<>>)
     IN  IF r.state = "fulfilled"
         THEN /\ patterns' = r.value
              /\ loading' = FALSE
              /\ batches' = Release([batches EXCEPT ![g].status = "fulfilled", ![g].data = data,
                                            ![g].tasks = tasks])
         ELSE /\ UNCHANGED <<patterns, loading>>
              /\ batches' = Release([batches EXCEPT ![g].status = "fanout", ![g].data = data,
                                            ![g].tasks = tasks])
  /\ UNCHANGED <<routeNumber, selectedPattern, shapeData, error,
                 shapeFetches, gpxIn, gpxOut>>
  /\ gpxFile' = Null

\* The line fetch succeeds: setRouteDetails, then every task of the fan-out
\* runs up to its first await (lines 139-145); an empty identifier list lets
\* Promise.all fulfil at once.
LineLoaded(g, data) ==
  /\ batches[g].status = "line"
  /\ routeDetails' = data
  /\ LET tasks == [i \in 1..Len(data.patterns) |-> NewTask(data.patterns[i])]
         r == PromiseAll(tasks, <<>>)
     IN  IF r.state = "fulfilled"
         THEN /\ patterns' = r.value
              /\ loading' = FALSE
              /\ batches' = Release([batches EXCEPT ![g].status = "fulfilled", ![g].data = data,
                                            ![g].tasks = tasks])
         ELSE /\ UNCHANGED <<patterns, loading>>
              /\ batches' = Release([batches EXCEPT ![g].status = "fanout", ![g].data = data,
                                            ![g].tasks = tasks])
  /\ UNCHANGED <<routeNumber, selectedPattern, shapeData, error,
                 shapeFetches, gpxIn, gpxOut>>
  /\ gpxFile' = Null

\* The pattern fetch of task i settles (lines 145-150)
PatternResponse(g, i, outcome) ==
  /\ batches[g].tasks[i].stage = "pattern"
  /\ LET t == batches[g].tasks[i]
         t2 == IF outcome = "ok"
               THEN [t EXCEPT !.stage = "route", !.route_id = PatternDb[t.id].route_id]
               ELSE [t EXCEPT !.stage = "rejected",
                              !.reason = IF outcome = "notok" THEN MsgPattern(t.id)
                                         ELSE MsgNetwork]
     IN  Join(g, [batches[g].tasks EXCEPT ![i] = t2], batches[g].arrival)
  /\ UNCHANGED <<routeNumber, selectedPattern, shapeData,
                 shapeFetches, gpxIn, gpxOut>>
  /\ gpxFile' = Null

RouteResponseRetry(g, i, outcome) ==
  /\ batches[g].tasks[i].stage = "route"
  /\ LET t == batches[g].tasks[i]
         t2 == IF outcome = "ok"
               THEN [t EXCEPT !.stage = "resolved",
                              !.value = Enrich(PatternDb[t.id], RouteDb[t.route_id])]
               ELSE [t EXCEPT !.stage = "pattern", !.route_id = ""]
         a2 == IF outcome = "ok" THEN Append(batches[g].arrival, i) ELSE batches[g].arrival
     IN  Join(g, [batches[g].tasks EXCEPT ![i] = t2], a2)
  /\ UNCHANGED <<routeNumber, selectedPattern, shapeData,
                 shapeFetches, gpxIn, gpxOut>>
  /\ gpxFile' = Null

\* The route fetch of task i settles (lines 150-158)
RouteResponse(g, i, outcome) ==
  /\ batches[g].tasks[i].stage = "route"
  /\ LET t == batches[g].tasks[i]
         t2 == IF outcome = "ok"
               THEN [t EXCEPT !.stage = "resolved",
                              !.value = Enrich(PatternDb[t.id], RouteDb[t.route_id])]
               ELSE [t EXCEPT !.stage = "rejected",
                              !.reason = IF outcome = "notok" THEN MsgRoute(t.route_id)
                                         ELSE MsgNetwork]
         a2 == IF outcome = "ok" THEN Append(batches[g].arrival, i) ELSE batches[g].arrival
     IN  Join(g, [batches[g].tasks EXCEPT ![i] = t2], a2)
  /\ UNCHANGED <<routeNumber, selectedPattern, shapeData,
                 shapeFetches, gpxIn, gpxOut>>
  /\ gpxFile' = Null

-----------------------------------------------------------------------------
(* getRouteEndpoints (lines 181-187) *)

Delimiter == <<" ", "-", " ">>

StartsWith(s, d) == Len(s) >= Len(d) /\ SubSeq(s, 1, Len(d)) = d

\* String.prototype.split with a non-empty separator
RECURSIVE Split(_, _, _)
Split(s, d, part) ==
  IF s = <<>> THEN <<part>>
  ELSE IF StartsWith(s, d) THEN <<part>> \o Split(SubSeq(s, Len(d) + 1, Len(s)), d, <<>>)
  ELSE Split(Tail(s), d, Append(part, Head(s)))

getRouteEndpointsSecond(headsign) ==
  LET parts == Split(headsign, Delimiter, <<>>)
  IN  [origin |-> parts[1], destination |-> parts[IF Len(parts) > 1 THEN 2 ELSE 1]]

getRouteEndpoints(headsign) ==
  LET parts == Split(headsign, Delimiter, <<>>)
  IN  [origin |-> parts[1], destination |-> parts[Len(parts)]]

-----------------------------------------------------------------------------
(* fetchPattern (lines 169-179) *)

ShapeIds == {PatternDb[p].shape_id : p \in PatternIds}

\* What GET /shapes/{id} answers with a success status: a line of two
\* coordinate pairs for s1, a line without coordinates for s2.
ShapeDb ==
  [s \in ShapeIds |->
     [type |-> "Feature",
      geometry |-> [type |-> "LineString",
                    coordinates |-> IF s = "s1" THEN <<<<-9, 38>>, <<-8, 39, 12>>>>
                                    ELSE <<>>],
      properties |-> [name |-> <<>>]]]

InFlightShapes == LET Sum[S \in SUBSET ShapeIds] ==
                        IF S = {} THEN 0
                        ELSE LET x == CHOOSE y \in S : TRUE
                             IN  shapeFetches[x] + Sum[S \ {x}]
                  IN  Sum[ShapeIds]

\* onClick of the i-th pattern button (lines 292-297), up to `await fetch(shapes/..)`
FetchPattern(i) ==
  /\ routeDetails # Null
  /\ i \in 1..Len(patterns)
  /\ InFlightShapes < MaxShapeFetches
  /\ selectedPattern' = patterns[i]
  /\ shapeFetches' = [shapeFetches EXCEPT ![patterns[i].shape_id] = @ + 1]
  /\ UNCHANGED <<routeNumber, routeDetails, patterns, shapeData, loading, error,
                 batches, gpxIn, gpxOut>>
  /\ gpxFile' = Null

\* The shape fetch issued for shape id s succeeds: setShapeData(response).
\* The record keeps the identifier the response was requested for.
ShapeLoaded(s) ==
  /\ shapeFetches[s] > 0
  /\ shapeFetches' = [shapeFetches EXCEPT ![s] = @ - 1]
  /\ shapeData' = [shape_id |-> s, geojson |-> ShapeDb[s]]
  /\ UNCHANGED <<routeNumber, routeDetails, patterns, selectedPattern, loading, error,
                 batches, gpxIn, gpxOut>>
  /\ gpxFile' = Null

\* The shape fetch issued for shape id s has a non-success status or rejects.
ShapeFailed(s, outcome) ==
  /\ shapeFetches[s] > 0
  /\ outcome \in {"notok", "reject"}
  /\ shapeFetches' = [shapeFetches EXCEPT ![s] = @ - 1]
  /\ error' = IF outcome = "notok" THEN MsgShape ELSE MsgNetwork
  /\ UNCHANGED <<routeNumber, routeDetails, patterns, selectedPattern, shapeData, loading,
                 batches, gpxIn, gpxOut>>
  /\ gpxFile' = Null

-----------------------------------------------------------------------------
(* GeoJSON values and the two GPX writers *)

\* Coordinate pairs (longitude, latitude[, altitude]) of the test geometries.
CoordPairs == {<<-9, 38>>, <<-8, 39, 12>>}

LineString(cs) == [type |-> "LineString", coordinates |-> cs]
Point(xy)      == [type |-> "Point", coordinates |-> xy]

\* name = <<>> stands for a feature without a name property (or an empty one)
Feature(geometry, name) ==
  [type |-> "Feature", geometry |-> geometry, properties |-> [name |-> name]]

FeatureCollection(fs) == [type |-> "FeatureCollection", features |-> fs]

\* Null stands for a feature without geometry
Geometries ==
  {LineString(cs) : cs \in SeqsUpTo(CoordPairs, MaxCoords)}
    \cup {Point(<<-9, 38>>), Point(<<0, 38>>), Null}

Features ==
  {Feature(g, <<>>) : g \in Geometries}
    \cup {Feature(LineString(<<<<-8, 39, 12>>>>), <<"L", "i", "n", "h", "a">>)}

\* A JavaScript value read out of a coordinate array: a number or undefined.
Undefined == [t |-> "undef", v |-> 0]
Num(n)    == [t |-> "num", v |-> n]

\* `${v}` in a template literal
Str(v) == IF v.t = "num" THEN ToString(v.v) ELSE "undefined"

\* geometry.coordinates[k][i] (0-based); elements of a Point's coordinates
\* are numbers, which have no indexed properties.
CoordAt(geometry, k, i) ==
  IF geometry.type = "LineString"
     /\ k + 1 \in DOMAIN geometry.coordinates
     /\ i + 1 \in DOMAIN geometry.coordinates[k + 1]
  THEN Num(geometry.coordinates[k + 1][i + 1])
  ELSE Undefined

\* !!geometry.coordinates[k] : arrays are truthy, numbers are unless 0
Truthy(geometry, k) ==
  /\ k + 1 \in DOMAIN geometry.coordinates
  /\ geometry.type = "Point" => geometry.coordinates[k + 1] # 0

Thrown(msg) == [ok |-> FALSE, error |-> msg, doc |-> Null]
Returned(doc) == [ok |-> TRUE, error |-> "", doc |-> doc]

\* coordinates.map(coord => <trkpt lon=coord[0] lat=coord[1]>) of both writers
TrkSegSwapped(geometry) ==
  [k \in 1..Len(geometry.coordinates) |->
     [lon |-> Str(CoordAt(geometry, k - 1, 1)), lat |-> Str(CoordAt(geometry, k - 1, 0))]]

TrkSeg(geometry) ==
  [k \in 1..Len(geometry.coordinates) |->
     [lon |-> Str(CoordAt(geometry, k - 1, 0)), lat |-> Str(CoordAt(geometry, k - 1, 1))]]

\* The template literal of downloadGPX (lines 196-209); reading
\* shapeData.geojson.geometry.coordinates throws a TypeError when a link of
\* the chain is missing.
gpxData(pattern, shape) ==
  IF shape.geojson = Null
     \/ "geometry" \notin DOMAIN shape.geojson
     \/ shape.geojson.geometry = Null
  THEN Thrown("TypeError")
  ELSE Returned([creator |-> "Carris Metropolitana",
                 wpts |-> <<>>,
                 body |-> <<[kind |-> "trk", name |-> pattern.headsign,
                             trkseg |-> TrkSeg(shape.geojson.geometry)]>>])

\* features.map(..) of geojsonToGpx (lines 94-107); a feature that is not a
\* LineString contributes an empty string.
GpxBody(features) ==
  [j \in 1..Len(features) |->
     IF features[j].geometry.type = "LineString"
     THEN [kind |-> "trk",
           name |-> IF features[j].properties.name # <<>> THEN features[j].properties.name
                    ELSE <<"R", "o", "t", "a">>,
           trkseg |-> TrkSeg(features[j].geometry)]
     ELSE [kind |-> "empty", name |-> <<>>, trkseg |-> <<>>]]

\* geojsonToGpx (lines 60-110)
geojsonToGpx(geojson, origin, destination) ==
  IF geojson = Null \/ geojson.type # "FeatureCollection"
  THEN Thrown("GeoJSON invalido. Certifique-se de que e um FeatureCollection.")
  ELSE IF geojson.features = <<>>
  THEN Thrown("Coordenadas de inicio ou fim nao encontradas.")
  ELSE IF geojson.features[1].geometry = Null
  THEN Thrown("TypeError")
  ELSE LET g0 == geojson.features[1].geometry
           last == Len(g0.coordinates) - 1
       IN  IF ~Truthy(g0, 0) \/ ~Truthy(g0, last)
           THEN Thrown("Coordenadas de inicio ou fim nao encontradas.")
           ELSE IF \E j \in 1..Len(geojson.features) : geojson.features[j].geometry = Null
           THEN Thrown("TypeError")
           ELSE Returned([creator |-> "CustomConverter",
                          wpts |-> <<[lon |-> Str(CoordAt(g0, 0, 0)),
                                      lat |-> Str(CoordAt(g0, 0, 1)),
                                      name |-> origin],
                                     [lon |-> Str(CoordAt(g0, last, 0)),
                                      lat |-> Str(CoordAt(g0, last, 1)),
                                      name |-> destination]>>,
                          body |-> GpxBody(geojson.features)])

DownloadGPXUnguarded ==
  /\ routeDetails # Null
  /\ selectedPattern # Null
  /\ IF selectedPattern = Null \/ shapeData = Null \/ routeDetails = Null
     THEN error' = MsgGpx /\ gpxFile' = Null
     ELSE LET r == gpxData(selectedPattern, shapeData)
          IN  IF r.ok THEN gpxFile' = r.doc /\ error' = error
              ELSE error' = MsgGpx /\ gpxFile' = Null
  /\ UNCHANGED <<routeNumber, routeDetails, patterns, selectedPattern, shapeData, loading,
                 batches, shapeFetches, gpxIn, gpxOut>>

\* downloadGPX (lines 189-226); the button is rendered inside the
\* `routeDetails &&` block when a pattern is selected (lines 276, 385-387).
\* The name given to the downloaded file is not modelled.
DownloadGPX ==
  /\ routeDetails # Null
  /\ selectedPattern # Null
  /\ IF selectedPattern = Null \/ shapeData = Null \/ routeDetails = Null
     THEN error' = MsgNoSelection /\ gpxFile' = Null
     ELSE LET r == gpxData(selectedPattern, shapeData)
          IN  IF r.ok THEN gpxFile' = r.doc /\ error' = error
              ELSE error' = MsgGpx /\ gpxFile' = Null
  /\ UNCHANGED <<routeNumber, routeDetails, patterns, selectedPattern, shapeData, loading,
                 batches, shapeFetches, gpxIn, gpxOut>>

-----------------------------------------------------------------------------
(* The application *)

Init ==
  /\ routeNumber = <<>>
  /\ routeDetails = Null
  /\ patterns = <<>>
  /\ selectedPattern = Null
  /\ shapeData = Null
  /\ loading = FALSE
  /\ error = ""
  /\ batches = [g \in 1..MaxBatches |-> Free]
  /\ shapeFetches = [s \in ShapeIds |-> 0]
  /\ gpxFile = Null
  /\ gpxIn = Null
  /\ gpxOut = Null

Next ==
  \/ \E s \in RouteNumbers : SetRouteNumber(s)
  \/ SearchRouteEmpty
  \/ SearchRouteStart
  \/ \E g \in DOMAIN batches, o \in Outcomes : LineFailed(g, o)
  \/ \E g \in DOMAIN batches, data \in LineRecords : LineLoaded(g, data)
  \/ \E g \in DOMAIN batches : \E i \in DOMAIN batches[g].tasks, o \in Outcomes :
        PatternResponse(g, i, o)
  \/ \E g \in DOMAIN batches : \E i \in DOMAIN batches[g].tasks, o \in Outcomes :
        RouteResponse(g, i, o)
  \/ \E i \in 1..MaxPatterns : FetchPattern(i)
  \/ \E s \in ShapeIds : ShapeLoaded(s)
  \/ \E s \in ShapeIds, o \in Outcomes : ShapeFailed(s, o)
  \/ DownloadGPX

Spec == Init /\ [][Next]_vars

\* Every fetch that has been issued eventually settles, one way or another.
LineSettles ==
  \/ \E g \in DOMAIN batches, o \in Outcomes : LineFailed(g, o)
  \/ \E g \in DOMAIN batches, data \in LineRecords : LineLoaded(g, data)

PatternSettles(g, i) ==
  /\ i \in DOMAIN batches[g].tasks
  /\ \E o \in Outcomes : PatternResponse(g, i, o)

RouteSettles(g, i) ==
  /\ i \in DOMAIN batches[g].tasks
  /\ \E o \in Outcomes : RouteResponse(g, i, o)

ShapeSettles(s) == ShapeLoaded(s) \/ \E o \in Outcomes : ShapeFailed(s, o)

FetchesSettle ==
  /\ WF_vars(LineSettles)
  /\ \A g \in 1..MaxBatches, i \in 1..MaxPatterns :
       WF_vars(PatternSettles(g, i)) /\ WF_vars(RouteSettles(g, i))
  /\ \A s \in ShapeIds : WF_vars(ShapeSettles(s))

SpecLive == Spec /\ FetchesSettle

-----------------------------------------------------------------------------
(* The GPX writers as pure functions: every input is converted once *)

MaxFeatures == 2      \* most features of a feature collection

GeoJsons ==
  {Null} \cup Features \cup {LineString(<<<<-9, 38>>>>)}
    \cup {FeatureCollection(fs) : fs \in SeqsUpTo(Features, MaxFeatures)}

Labels == {<<"A">>, <<"B">>}

MaxPieces == 5        \* most pieces a headsign is put together from

RECURSIVE Flatten(_)
Flatten(ss) == IF ss = <<>> THEN <<>> ELSE Head(ss) \o Flatten(Tail(ss))

\* Headsigns handed to getRouteEndpoints: names, delimiters, and the parts of
\* a delimiter (a lone hyphen, a lone space) in every arrangement.
Headsigns ==
  {Flatten(ps) : ps \in UNION {[1..n -> Labels \cup {Delimiter, <<"-">>, <<" ">>}] :
                                 n \in 0..MaxPieces}}

\* The arguments of one call of a writer or of getRouteEndpoints.
GeojsonToGpxInput(g, o, d) ==
  [fn |-> "geojsonToGpx", geojson |-> g, origin |-> o, destination |-> d, headsign |-> <<>>]

DownloadGpxInput(g, h) ==
  [fn |-> "downloadGPX", geojson |-> g, origin |-> <<>>, destination |-> <<>>, headsign |-> h]

EndpointsInput(h) ==
  [fn |-> "getRouteEndpoints", geojson |-> Null, origin |-> <<>>, destination |-> <<>>,
   headsign |-> h]

InitGpx ==
  /\ routeNumber = <<>>
  /\ routeDetails = Null
  /\ patterns = <<>>
  /\ selectedPattern = Null
  /\ shapeData = Null
  /\ loading = FALSE
  /\ error = ""
  /\ batches = [g \in 1..MaxBatches |-> Free]
  /\ shapeFetches = [s \in ShapeIds |-> 0]
  /\ gpxFile = Null
  /\ \/ \E g \in GeoJsons, o \in Labels, d \in Labels : gpxIn = GeojsonToGpxInput(g, o, d)
     \/ \E g \in GeoJsons, h \in Labels : gpxIn = DownloadGpxInput(g, h)
     \/ \E h \in Headsigns : gpxIn = EndpointsInput(h)
  /\ gpxOut = Null

CallGeojsonToGpx ==
  /\ gpxOut = Null
  /\ gpxIn.fn = "geojsonToGpx"
  /\ gpxOut' = geojsonToGpx(gpxIn.geojson, gpxIn.origin, gpxIn.destination)
  /\ UNCHANGED <<appVars, gpxIn>>

CallGpxData ==
  /\ gpxOut = Null
  /\ gpxIn.fn = "downloadGPX"
  /\ gpxOut' = gpxData([headsign |-> gpxIn.headsign], [geojson |-> gpxIn.geojson])
  /\ UNCHANGED <<appVars, gpxIn>>

CallGetRouteEndpoints ==
  /\ gpxOut = Null
  /\ gpxIn.fn = "getRouteEndpoints"
  /\ gpxOut' = Returned(getRouteEndpoints(gpxIn.headsign))
  /\ UNCHANGED <<appVars, gpxIn>>

NextGpx == CallGeojsonToGpx \/ CallGpxData \/ CallGetRouteEndpoints

SpecGpx == InitGpx /\ [][NextGpx]_vars

-----------------------------------------------------------------------------
(* Properties *)

\* the most recent searchRoute invocation
Latest == batches[1]

\* a request of batch g is in flight
InFlight(g) ==
  \/ batches[g].status = "line"
  \/ \E i \in DOMAIN batches[g].tasks : ~Settled(batches[g].tasks[i])

\* C1: when the shape fetch issued for a pattern settles while another
\* pattern is selected, the loaded shape afterwards is the selected
\* pattern's shape or none (a stale result is discarded).
C1_StaleShapeDiscarded ==
  [][\A s \in ShapeIds :
       (shapeFetches'[s] < shapeFetches[s]
          /\ selectedPattern # Null /\ selectedPattern.shape_id # s)
       => (shapeData' = Null \/ shapeData'.shape_id = selectedPattern'.shape_id)]_vars

\* C2: in every reachable state the loaded shape, if any, is the shape
\* fetched for the shape_id of the currently selected pattern.
C2_ShapeMatchesSelection ==
  shapeData # Null =>
    (selectedPattern # Null /\ shapeData.shape_id = selectedPattern.shape_id)

\* the enriched record of pattern identifier p
EnrichedRecordOf(rec, p) ==
  /\ rec.id = p
  /\ rec.headsign = PatternDb[p].headsign
  /\ rec.shape_id = PatternDb[p].shape_id
  /\ rec.route_id = PatternDb[p].route_id
  /\ rec.route_long_name = RouteDb[PatternDb[p].route_id].long_name
  /\ rec.long_name = RouteDb[PatternDb[p].route_id].long_name

\* C3: once the fan-out of a search has been fulfilled, the i-th element of
\* the pattern list is the enriched record of the i-th identifier of the
\* line record, whatever the order in which the fetches completed.
C3_InputOrderPreserved ==
  (Latest.status = "fulfilled") =>
     /\ Len(patterns) = Len(Latest.data.patterns)
     /\ \A i \in 1..Len(patterns) : EnrichedRecordOf(patterns[i], Latest.data.patterns[i])

\* two patterns whose enrichments completed in the reverse of the input order
C3_Witness ==
  /\ Latest.status = "fulfilled"
  /\ Len(patterns) = 2
  /\ Latest.reordered

\* C4: a failed pattern or route fetch rejects the batch at once with one
\* error and the pattern list stays empty; the list is never a non-empty
\* strict subset of the line's patterns.
C4_AllOrNothing ==
  /\ patterns # <<>> =>
       (routeDetails # Null /\ Len(patterns) = Len(routeDetails.patterns))
  /\ \A g \in DOMAIN batches :
       batches[g].status = "fanout" =>
         \A i \in DOMAIN batches[g].tasks : batches[g].tasks[i].stage # "rejected"
  /\ (Latest.status = "rejected") =>
       (patterns = <<>> /\ ~loading /\ error # "")

\* a batch of two rejected while the pattern fetch of another task had succeeded
C4_Witness ==
  /\ Latest.status = "rejected"
  /\ Len(Latest.data.patterns) = 2
  /\ \E i \in DOMAIN Latest.tasks : Latest.tasks[i].stage = "route"
  /\ patterns = <<>>

Blank(s) == \A i \in DOMAIN s : s[i] = " "

\* C5: a search whose identifier is empty after trimming sets the
\* validation error and issues no line, pattern, route or shape request.
C5_EmptyInputNoNetwork ==
  [][(SearchRoute /\ Blank(routeNumber)) =>
       (/\ error' = MsgEmptyRoute
        /\ UNCHANGED <<batches, shapeFetches, loading, routeDetails, patterns,
                       selectedPattern, shapeData>>)]_vars

C5_Witness ==
  /\ routeNumber = <<" ">>
  /\ error = MsgEmptyRoute
  /\ \A g \in DOMAIN batches : batches[g] = Free

PatternLoadErrors ==
  {MsgPattern(p) : p \in PatternIds} \cup {MsgRoute(r) : r \in DOMAIN RouteDb}

\* what holds of the line lookup whichever way the line fetch may fail
LineLookupStep(failures) ==
  \A g \in DOMAIN batches :
    /\ (batches[g].status = "line" /\ batches'[g].status # "line") =>
         /\ error' \notin PatternLoadErrors
         /\ \/ /\ batches'[g].status \in {"fanout", "fulfilled"}
               /\ routeDetails' # Null
               /\ routeDetails' = batches'[g].data
            \/ /\ batches'[g].status \in failures
               /\ error' = (IF batches'[g].status = "notfound" THEN MsgRouteNotFound
                            ELSE MsgNetwork)
               /\ routeDetails' = Null
               /\ batches'[g].tasks = <<>>
    /\ (batches[g].status = "fanout" /\ batches'[g].status = "rejected") =>
         (routeDetails' = batches[g].data /\ routeDetails' # Null)

\* C6 as stated: the line lookup yields the line record or fails with the
\* not-found error, never with a pattern-load error; after a failed line
\* fetch no pattern or route fetch is issued, and the line record is kept
\* when the fan-out fails.
C6_LineOrNotFound == [][LineLookupStep({"notfound"})]_vars

\* C6 amended: as above, but the lookup may also fail with the message of the
\* rejected request when the line fetch itself rejects.
C6_LineOrNotFoundOrRejected ==
  [][/\ LineLookupStep({"notfound", "neterror"})
     /\ \A g \in DOMAIN batches :
          batches'[g].status \in {"notfound", "neterror"} => batches'[g].tasks = <<>>]_vars

\* the line record kept after the fan-out of two patterns failed
C6_Witness ==
  /\ Latest.status = "rejected"
  /\ routeDetails # Null
  /\ Len(routeDetails.patterns) = 2
  /\ error \in PatternLoadErrors

\* C7 as stated: when the outcome of a batch is visible (pattern list set, or
\* error set and loading false) no request of the batch is in flight.
C7_OutcomeAfterAllSettled ==
  \A g \in DOMAIN batches :
    batches[g].status \in {"fulfilled", "rejected"} => ~InFlight(g)

\* C7 amended: the pattern list is set only when every request of the batch
\* has settled (successfully); a search is loading exactly while its
\* Promise.all is pending.
C7_ListAfterAllSettled ==
  /\ \A g \in DOMAIN batches : batches[g].status = "fulfilled" => ~InFlight(g)
  /\ patterns # <<>> => (Latest.status = "fulfilled")
  /\ loading <=> (Latest.status \in {"line", "fanout"})

C7_Witness ==
  /\ Latest.status = "fulfilled"
  /\ Len(patterns) = 2
  /\ ~loading

-----------------------------------------------------------------------------
(* Properties of the GPX writers *)

IsLineFeature(g) ==
  /\ g # Null
  /\ g.type = "Feature"
  /\ g.geometry # Null
  /\ g.geometry.type = "LineString"
  /\ g.geometry.coordinates # <<>>

IsLineCollection(g) ==
  /\ g # Null
  /\ g.type = "FeatureCollection"
  /\ g.features # <<>>
  /\ \A j \in DOMAIN g.features : IsLineFeature(g.features[j])

\* the coordinate sequence of a structurally valid input
InputCoords(g) ==
  IF g.type = "Feature" THEN g.geometry.coordinates
  ELSE Flatten([j \in DOMAIN g.features |-> g.features[j].geometry.coordinates])

\* the track points of a document, in document order
TrackPoints(doc) == Flatten([j \in DOMAIN doc.body |-> doc.body[j].trkseg])

\* positions 0 and 1 of every pair, as the decimal text of the number
ExpectedPoints(cs) ==
  [k \in DOMAIN cs |-> [lon |-> ToString(cs[k][1]), lat |-> ToString(cs[k][2])]]

RoundTrips == /\ gpxOut.ok
              /\ TrackPoints(gpxOut.doc) = ExpectedPoints(InputCoords(gpxIn.geojson))

BadGeometry(shape) ==
  \/ shape.geojson = Null
  \/ "geometry" \notin DOMAIN shape.geojson
  \/ shape.geojson.geometry = Null
  \/ shape.geojson.geometry.coordinates = <<>>

\* C9: every document downloaded for a geometry with coordinates has exactly
\* two waypoints followed by the track, the first at the
\* first coordinate pair labelled with the origin, the second at the last
\* coordinate pair labelled with the destination.
C9_TwoWaypoints ==
  (gpxFile # Null /\ ~BadGeometry(shapeData)) =>
    LET cs == shapeData.geojson.geometry.coordinates
        ends == getRouteEndpoints(selectedPattern.headsign)
    IN  /\ Len(gpxFile.wpts) = 2
        /\ gpxFile.wpts[1] = [lon |-> ToString(cs[1][1]), lat |-> ToString(cs[1][2]),
                              name |-> ends.origin]
        /\ gpxFile.wpts[2] = [lon |-> ToString(cs[Len(cs)][1]),
                              lat |-> ToString(cs[Len(cs)][2]),
                              name |-> ends.destination]

\* C10: downloadGPX on a loaded shape whose geometry is absent or empty
\* produces no document, reports the GPX error and leaves line details,
\* pattern list, selected pattern and loaded shape unchanged.
C10_InvalidGeometryRejected ==
  [][(DownloadGPX /\ shapeData # Null /\ BadGeometry(shapeData)) =>
       (/\ gpxFile' = Null
        /\ error' = MsgGpx
        /\ UNCHANGED <<routeDetails, patterns, selectedPattern, shapeData>>)]_vars

-----------------------------------------------------------------------------
(* Degenerate inputs of geojsonToGpx *)

\* a non-empty feature collection all of whose features are points
IsPointCollection(g) ==
  /\ g # Null
  /\ g.type = "FeatureCollection"
  /\ g.features # <<>>
  /\ \A j \in DOMAIN g.features :
       g.features[j].geometry # Null /\ g.features[j].geometry.type = "Point"

\* C11: geojsonToGpx given a feature collection that contains only non-line
\* (point) features does not fail and returns a document whose track body is
\* empty, without any track segment.
C11_NonLineCollectionEmptyTrack ==
  (gpxOut # Null /\ gpxIn.fn = "geojsonToGpx" /\ IsPointCollection(gpxIn.geojson)) =>
    /\ gpxOut.ok
    /\ \A j \in DOMAIN gpxOut.doc.body : gpxOut.doc.body[j].kind = "empty"

-----------------------------------------------------------------------------
(* Properties of getRouteEndpoints *)

\* the delimiter occurs in s at position k
OccursAt(s, k) == k + Len(Delimiter) - 1 <= Len(s) /\ SubSeq(s, k, k + Len(Delimiter) - 1) = Delimiter

Occurs(s) == \E k \in 1..Len(s) : OccursAt(s, k)

\* two occurrences of the delimiter share a character
Overlapping(s) ==
  \E k \in 1..Len(s), m \in 1..Len(s) :
    k < m /\ m < k + Len(Delimiter) /\ OccursAt(s, k) /\ OccursAt(s, m)

\* C12: getRouteEndpoints splits on the literal " - ": the origin is the
\* segment before the first delimiter and the destination the segment after
\* the last one; a headsign without the delimiter yields the whole string
\* twice, one with several delimiters the first and the last token.
C12_FirstAndLastSegment ==
  (gpxOut # Null /\ gpxIn.fn = "getRouteEndpoints") =>
    LET h == gpxIn.headsign
        r == gpxOut.doc
        D == Len(Delimiter)
    IN  /\ ~Occurs(h) => (r.origin = h /\ r.destination = h)
        /\ Occurs(h) =>
             /\ \E k \in 1..Len(h) :
                  /\ OccursAt(h, k)
                  /\ \A m \in 1..(k - 1) : ~OccursAt(h, m)
                  /\ r.origin = SubSeq(h, 1, k - 1)
             /\ \E k \in 1..Len(h) :
                  /\ OccursAt(h, k)
                  /\ r.destination = SubSeq(h, k + D, Len(h))
                  /\ ~Overlapping(h) => \A m \in (k + 1)..Len(h) : ~OccursAt(h, m)
        /\ ~Occurs(r.origin) /\ ~Occurs(r.destination)
        /\ h = <<"A">> \o Delimiter \o <<"B">> => r = [origin |-> <<"A">>, destination |-> <<"B">>]
        /\ h = <<"A">> \o Delimiter \o <<"A">> \o Delimiter \o <<"B">>
             => r = [origin |-> <<"A">>, destination |-> <<"B">>]

\* "A - A - B" split into origin "A" and destination "B"
C12_Witness ==
  /\ gpxOut # Null
  /\ gpxIn.fn = "getRouteEndpoints"
  /\ gpxIn.headsign = <<"A">> \o Delimiter \o <<"A">> \o Delimiter \o <<"B">>
  /\ gpxOut.doc.origin = <<"A">>
  /\ gpxOut.doc.destination = <<"B">>

-----------------------------------------------------------------------------
(* Track names *)

\* C13: each track of an exported document is named after its feature's own
\* name property when the feature has one, and otherwise after the track
\* name the caller supplies (downloadGPX supplies the pattern's headsign).
C13_TrackNameOwnOrCaller ==
  (gpxOut # Null /\ gpxOut.ok) =>
    /\ gpxIn.fn = "downloadGPX" =>
         gpxOut.doc.body[1].name =
           (IF gpxIn.geojson.properties.name # <<>> THEN gpxIn.geojson.properties.name
            ELSE gpxIn.headsign)
    /\ gpxIn.fn = "geojsonToGpx" =>
         \A j \in DOMAIN gpxIn.geojson.features :
           LET f == gpxIn.geojson.features[j]
           IN  (f.geometry.type = "LineString" /\ f.properties.name # <<>>)
                 => gpxOut.doc.body[j].name = f.properties.name

-----------------------------------------------------------------------------
(* Properties of the fan-out *)

\* C14: the step that loads the line record issues the pattern request of
\* every identifier of the list at once, before any pattern or route request
\* of the batch has completed, and no request for a further pattern is
\* issued later; all N pattern requests are in flight together.
C14_FanOutAllIssued ==
  [][\A g \in DOMAIN batches :
       /\ (batches[g].status = "line" /\ batches'[g].status = "fanout") =>
            /\ Len(batches'[g].tasks) = Len(routeDetails'.patterns)
            /\ \A i \in DOMAIN batches'[g].tasks :
                 /\ batches'[g].tasks[i].stage = "pattern"
                 /\ batches'[g].tasks[i].id = routeDetails'.patterns[i]
       /\ (batches[g].status = "fanout" /\ batches'[g].status = "fanout") =>
            /\ Len(batches'[g].tasks) = Len(batches[g].tasks)
            /\ Len(batches'[g].tasks) = Len(batches'[g].data.patterns)]_vars

\* two pattern requests in flight at the same time, none completed
C14_Witness ==
  /\ Latest.status = "fanout"
  /\ Len(Latest.tasks) = 2
  /\ \A i \in DOMAIN Latest.tasks : Latest.tasks[i].stage = "pattern"

-----------------------------------------------------------------------------
(* Requests are not repeated *)

\* C15 as stated: within one invocation each pattern and each route is
\* requested at most once, so no two tasks of a batch have requested the
\* same pattern or the same route.
C15_EachResourceOnce ==
  \A g \in DOMAIN batches :
    \A i \in DOMAIN batches[g].tasks, j \in DOMAIN batches[g].tasks :
      (i # j /\ ~Settled(batches[g].tasks[i]) /\ ~Settled(batches[g].tasks[j])) =>
        /\ batches[g].tasks[i].id # batches[g].tasks[j].id
        /\ batches[g].tasks[i].stage = "route" /\ batches[g].tasks[j].stage = "route"
             => batches[g].tasks[i].route_id # batches[g].tasks[j].route_id

\* how far a task has come: its pattern request, its route request, settled
Rank(task) == IF task.stage = "pattern" THEN 0 ELSE IF task.stage = "route" THEN 1 ELSE 2

FailureMessages ==
  {MsgRouteNotFound, MsgNetwork} \cup {MsgPattern(p) : p \in PatternIds}
    \cup {MsgRoute(r) : r \in DOMAIN RouteDb}

\* C15 amended: no request is issued again.  A step that settles a request
\* of a search adds no task and moves no task back to a request it has made
\* (a task goes from its pattern request to its route request to settled):
\* tasks, and with them pattern requests, appear only when the line record
\* arrives, and a line request only when a search starts.  A step that
\* settles a shape fetch issues none; shape fetches are issued only by the
\* selection of a pattern.  The first failure of a search and every failure
\* of a shape fetch is reported through the error message.
C15_NoReissue ==
  [][/\ (batches' # batches /\ (loading \/ ~loading')) =>
          /\ Latest.status # "line" =>
               /\ batches'[1].status # "line"
               /\ Len(batches'[1].tasks) <= Len(Latest.tasks)
               /\ \A i \in DOMAIN batches'[1].tasks :
                    Rank(batches'[1].tasks[i]) >= Rank(Latest.tasks[i])
          /\ \A g \in DOMAIN batches :
               g > 1 => /\ batches'[g].status # "line"
                        /\ Len(batches'[g].tasks) <= Len(batches[g].tasks)
          /\ (Latest.status \in {"line", "fanout"}
                /\ batches'[1].status \in {"notfound", "neterror", "rejected"}) =>
               /\ error' \in FailureMessages
               /\ ~loading'
               /\ shapeFetches' = shapeFetches
     /\ shapeFetches' # shapeFetches =>
          \/ \E i \in 1..Len(patterns) : FetchPattern(i)
          \/ \E s \in ShapeIds :
               /\ shapeFetches' = [shapeFetches EXCEPT ![s] = @ - 1]
               /\ batches' = batches
               /\ \/ shapeData' = [shape_id |-> s, geojson |-> ShapeDb[s]]
                  \/ error' \in {MsgShape, MsgNetwork}]_vars

\* a route request failed while the other task's request for the same route
\* was in flight: the search has reported the failure
C15_Witness ==
  /\ Latest.status = "rejected"
  /\ error = MsgRoute("r1")
  /\ \E i \in DOMAIN Latest.tasks : Latest.tasks[i].stage = "route"
  /\ ~loading

-----------------------------------------------------------------------------
(* Frame of a search *)

\* C16: a search with a non-empty identifier clears line details, pattern
\* list, selected pattern, loaded shape and error message before its request
\* is issued, and while the search is in flight nothing of the previous
\* lookup is visible: no pattern list, no selection, no shape, no error, and
\* no line details before the line record of the new search has arrived.
C16_PreviousLookupDiscarded ==
  loading =>
    /\ patterns = <<>>
    /\ selectedPattern = Null
    /\ shapeData = Null
    /\ error = ""
    /\ Latest.status = "line" => routeDetails = Null

-----------------------------------------------------------------------------
(* Termination of a search *)

\* C17: provided every issued fetch eventually settles, every started search
\* eventually ends with the loading flag false (the search button enabled
\* again), whether the line fetch failed, a pattern or route fetch failed, or
\* all succeeded.
C17_SearchEnds == loading ~> ~loading

\* a search whose line fetch was rejected has ended
C17_Witness ==
  /\ Latest.status = "neterror"
  /\ error = MsgNetwork
  /\ ~loading

-----------------------------------------------------------------------------
(* The pattern list and the selection *)

\* the identifiers of a list of pattern records
Ids(ps) == [i \in DOMAIN ps |-> ps[i].id]

C19_SelectionFromList ==
  selectedPattern # Null => \E i \in DOMAIN patterns : patterns[i] = selectedPattern

\* the second pattern of a list of two is selected
C19_Witness ==
  /\ Len(patterns) = 2
  /\ selectedPattern = patterns[2]

-----------------------------------------------------------------------------
(* The guard of downloadGPX *)

\* C20: downloadGPX invoked while the selected pattern, the loaded shape or
\* the line details is absent hands no file to the browser and sets the
\* "nothing selected" error, leaving line details, pattern list, selected
\* pattern and loaded shape as they were.
C20_NothingToDownload ==
  [][(DownloadGPX /\ (selectedPattern = Null \/ shapeData = Null \/ routeDetails = Null)) =>
       (/\ gpxFile' = Null
        /\ error' = MsgNoSelection
        /\ error' # ""
        /\ UNCHANGED <<routeDetails, patterns, selectedPattern, shapeData, loading,
                       batches, shapeFetches>>)]_vars

\* the download was asked for while the shape of the selected pattern was
\* still being fetched
C20_Witness ==
  /\ error = MsgNoSelection
  /\ selectedPattern # Null
  /\ shapeData = Null
  /\ shapeFetches[selectedPattern.shape_id] > 0

====
